---- MODULE Spec2Model ----
(***************************************************************************)
(* Model of the SEO Data API (src/app.py): a Flask service with the routes *)
(* /, /health and /api/seo-data.  The last one normalises the url it is    *)
(* given, fetches one page of an upstream site and scrapes it into a       *)
(* report.                                                                 *)
(*                                                                         *)
(* Strings.  A URL is a sequence of one-character strings, so that prefix  *)
(* tests and slices are computed as Python computes them.  A text of the   *)
(* upstream page is a sequence of tokens, each either the whitespace token *)
(* " " or a word without whitespace; str.strip() removes the whitespace    *)
(* tokens at both ends.                                                    *)
(***************************************************************************)
EXTENDS Integers, Sequences, FiniteSets, TLC

VARIABLES pc, req, resp, upstream, outbound, parsed, ret, nd_url, nd_result

vars == <<pc, req, resp, upstream, outbound, parsed, ret, nd_url, nd_result>>

\* Python's None.
None == "None"

(***************************************************************************)
(* Bounds of the model.                                                    *)
(***************************************************************************)
\* Number of server workers handling requests concurrently.
NumWorkers == 2
\* Number of top-level elements of an upstream page.
MaxNodes == 3
Workers == 1..NumWorkers

(***************************************************************************)
(* Character strings.                                                      *)
(***************************************************************************)
HTTP == <<"h", "t", "t", "p", ":", "/", "/">>
HTTPS == <<"h", "t", "t", "p", "s", ":", "/", "/">>
WWW == <<"w", "w", "w", ".">>

\* str.startswith(prefix)
startswith(s, p) == Len(s) >= Len(p) /\ SubSeq(s, 1, Len(p)) = p

\* s[n:] of Python, n >= 0
SliceFrom(s, n) == SubSeq(s, n + 1, Len(s))

\* str.find(c): the 0-based index of the first c in s, -1 if there is none
find(s, c) ==
    IF \E i \in 1..Len(s) : s[i] = c
    THEN (CHOOSE i \in 1..Len(s) : s[i] = c /\ \A j \in 1..(i - 1) : s[j] # c) - 1
    ELSE -1

\* str.find(c, start)
find_from(s, c, start) ==
    IF \E i \in (start + 1)..Len(s) : s[i] = c
    THEN (CHOOSE i \in (start + 1)..Len(s) :
              s[i] = c /\ \A j \in (start + 1)..(i - 1) : s[j] # c) - 1
    ELSE -1

Min(a, b) == IF a <= b THEN a ELSE b

\* The characters a URL scheme may consist of, among those the inputs use.
scheme_chars == {"h", "t", "p", "s", "w", "a", "b", "u", "f", "H", "T", "P", "S", "W", "."}
ascii_alpha == scheme_chars \ {"."}

\* str.lower() on the characters the inputs use
lower_char(c) ==
    CASE c = "H" -> "h" [] c = "T" -> "t" [] c = "P" -> "p"
      [] c = "S" -> "s" [] c = "W" -> "w" [] OTHER -> c
lower(s) == [i \in 1..Len(s) |-> lower_char(s[i])]

\* urllib.parse._splitnetloc(url, 2): the netloc ends at the first of / ? #
splitnetloc(url) ==
    LET cut(c, d) == LET w == find_from(url, c, 2) IN IF w >= 0 THEN Min(d, w) ELSE d
        delim == cut("#", cut("?", cut("/", Len(url))))
    IN  SubSeq(url, 3, delim)

\* urllib.parse.urlparse(url): the scheme and the netloc of the result, or the
\* ValueError that urlsplit raises for a bracket without its partner.
urlparse(url) ==
    LET i == find(url, ":")
        has_scheme == /\ i > 0
                      /\ url[1] \in ascii_alpha
                      /\ \A k \in 1..i : url[k] \in scheme_chars
        scheme == IF has_scheme THEN lower(SubSeq(url, 1, i)) ELSE <<>>
        rest == IF has_scheme THEN SliceFrom(url, i + 1) ELSE url
        netloc == IF startswith(rest, <<"/", "/">>) THEN splitnetloc(rest) ELSE <<>>
        open == \E k \in 1..Len(netloc) : netloc[k] = "["
        close == \E k \in 1..Len(netloc) : netloc[k] = "]"
    IN  IF open # close
        THEN [raised |-> TRUE, exc |-> "ValueError"]
        ELSE [raised |-> FALSE, scheme |-> scheme, netloc |-> netloc]

\* normalize_domain(url): the domain it returns, or the exception it lets through
normalize_domain(url) ==
    LET u == IF startswith(url, HTTP) \/ startswith(url, HTTPS) THEN url ELSE HTTPS \o url
        parsed_url == urlparse(u)
    IN  IF parsed_url.raised
        THEN parsed_url
        ELSE LET domain == parsed_url.netloc
             IN  [raised |-> FALSE,
                  value |-> IF startswith(domain, WWW) THEN SliceFrom(domain, 4) ELSE domain]

(***************************************************************************)
(* Inputs of normalize_domain: a string put together from an optional      *)
(* scheme, user-info, www prefix, host, port and remainder.                *)
(***************************************************************************)
SchemeParts == {<<>>, HTTP, HTTPS, <<"H", "T", "T", "P", ":", "/", "/">>, <<"f", "t", "p", ":", "/", "/">>}
UserParts == {<<>>, <<"u", "@">>}
WwwParts == {<<>>, WWW, WWW \o WWW, <<"W", "W", "W", ".">>}
HostParts == {<<>>, <<"a", ".", "b">>, <<"S", "u", "b", ".", "a">>, <<"[">>}
PortParts == {<<>>, <<":", "8", "0">>}
TailParts == {<<>>, <<"/", "p">>, <<"?", "q">>, <<"#", "f">>, <<"/", "w", "w", "w", ".">>}

NormInputs ==
    {s \o u \o w \o h \o p \o t :
        s \in SchemeParts, u \in UserParts, w \in WwwParts,
        h \in HostParts, p \in PortParts, t \in TailParts}

(***************************************************************************)
(* The upstream page.  The parsed document is the sequence of its          *)
(* top-level elements in document order.  An element has a tag, a class,   *)
(* its own text, the anchors inside it and, when it is or wraps a <table>  *)
(* (table = TRUE), the sequence of that table's <tr> rows.  A row is the   *)
(* sequence of its <td> cells; a cell has its own text and its anchors; an *)
(* anchor has a text and, when has_href holds, an href attribute.          *)
(***************************************************************************)
WS == " "

Anchor(text, href) == [text |-> text, has_href |-> TRUE, href |-> href]
AnchorNoHref(text) == [text |-> text, has_href |-> FALSE, href |-> <<>>]
Cell(text, anchors) == [text |-> text, anchors |-> anchors]
Element(tag, class, text, anchors) ==
    [tag |-> tag, class |-> class, text |-> text, anchors |-> anchors,
     table |-> FALSE, rows |-> <<>>]
Table(tag, class, rows) ==
    [tag |-> tag, class |-> class, text |-> <<>>, anchors |-> <<>>,
     table |-> TRUE, rows |-> rows]

\* str.strip(): without the whitespace at both ends
RECURSIVE lstrip(_)
lstrip(t) == IF t # <<>> /\ Head(t) = WS THEN lstrip(Tail(t)) ELSE t
RECURSIVE rstrip(_)
rstrip(t) == IF t # <<>> /\ t[Len(t)] = WS THEN rstrip(SubSeq(t, 1, Len(t) - 1)) ELSE t
strip(t) == rstrip(lstrip(t))

\* Tag.string of BeautifulSoup: the text of an element whose only child is a
\* string, the .string of its only child when that is a tag, None otherwise
\* (some = FALSE)
tag_string(n) ==
    LET none == [some |-> FALSE, value |-> <<>>]
        some(t) == IF t = <<>> THEN none ELSE [some |-> TRUE, value |-> t]
    IN  IF n.table THEN none
        ELSE IF n.anchors = <<>> THEN some(n.text)
        ELSE IF n.text = <<>> /\ Len(n.anchors) = 1 THEN some(n.anchors[1].text)
        ELSE none

\* Tag.text of a cell: all the strings inside it, in document order
RECURSIVE anchors_text(_)
anchors_text(as) == IF as = <<>> THEN <<>> ELSE Head(as).text \o anchors_text(Tail(as))
cell_text(c) == c.text \o anchors_text(c.anchors)

\* The least element of a non-empty set of integers
Least(S) == CHOOSE i \in S : \A j \in S : i <= j

\* soup.find(tag, string=s): the position of the first element with that tag
\* whose .string equals s, 0 when there is none
soup_find(soup, tag, s) ==
    LET hits == {i \in 1..Len(soup) : soup[i].tag = tag /\ tag_string(soup[i]) = [some |-> TRUE, value |-> s]}
    IN  IF hits = {} THEN 0 ELSE Least(hits)

\* find_next_sibling() without the tag: the element right after, whatever it is
find_next_sibling_any(soup, i) == IF i < Len(soup) THEN i + 1 ELSE 0

\* element.find_next_sibling("p"): the first later sibling that is a <p>
find_next_sibling_p(soup, i) ==
    LET sibs == {j \in (i + 1)..Len(soup) : soup[j].tag = "p"}
    IN  IF sibs = {} THEN 0 ELSE Least(sibs)

\* element.find_next("table"): the first <table> after the element
find_next_table(soup, i) ==
    LET tabs == {j \in (i + 1)..Len(soup) : soup[j].table}
    IN  IF tabs = {} THEN 0 ELSE Least(tabs)

\* soup.find("div", class_="table")
find_div_table(soup) ==
    LET hits == {i \in 1..Len(soup) : soup[i].tag = "div" /\ soup[i].class = "table"}
    IN  IF hits = {} THEN 0 ELSE Least(hits)

NotFound == <<"Not", WS, "Found">>
NA == <<"N/A">>

\* extract_metric falling through to an empty string instead of "Not Found"
extract_metric_blank(soup, metric_name) ==
    LET metric_section == soup_find(soup, "p", metric_name)
        value_tag == IF metric_section = 0 THEN 0 ELSE find_next_sibling_p(soup, metric_section)
    IN  IF metric_section # 0 /\ value_tag # 0 /\ soup[value_tag].anchors # <<>>
        THEN strip(soup[value_tag].anchors[1].text)
        ELSE <<>>

\* extract_metric(metric_name), the helper nested in get_seo_data
extract_metric(soup, metric_name) ==
    LET metric_section == soup_find(soup, "p", metric_name)
        value_tag == IF metric_section = 0 THEN 0 ELSE find_next_sibling_p(soup, metric_section)
    IN  IF metric_section # 0 /\ value_tag # 0 /\ soup[value_tag].anchors # <<>>
        THEN strip(soup[value_tag].anchors[1].text)
        ELSE NotFound

\* The labels of the nine metrics, by the report field each one fills
MetricLabel ==
    [organic_traffic |-> <<"Organic", WS, "Search", WS, "Traffic">>,
     traffic_value |-> <<"Traffic", WS, "Value">>,
     authority_score |-> <<"Authority", WS, "Score">>,
     visits |-> <<"Visits">>,
     pages_per_visit |-> <<"Pages", WS, "/", WS, "Visit">>,
     avg_visit_duration |-> <<"Avg.", WS, "Visit", WS, "Duration">>,
     bounce_rate |-> <<"Bounce", WS, "Rate">>,
     total_referring_domains |-> <<"Total", WS, "Referring", WS, "Domains">>,
     ranking_keywords |-> <<"Ranking", WS, "Keywords">>]

MetricFields == DOMAIN MetricLabel

extract_metrics(soup) == [f \in MetricFields |-> extract_metric(soup, MetricLabel[f])]

\* find_all("tr")[1:] of the table found after the heading h3_text, <<>> when
\* the heading or the table is missing
section_rows(soup, h3_text) ==
    LET section == soup_find(soup, "h3", h3_text)
        table == IF section = 0 THEN 0 ELSE find_next_table(soup, section)
    IN  IF section # 0 /\ table # 0 THEN SliceFrom(soup[table].rows, 1) ELSE <<>>

\* Tag["href"]: the attribute, or KeyError when the tag has none
KeyErrorHref == <<"'href'">>

\* One pass of the backlinks loop: the rows appended, or the KeyError raised
RECURSIVE backlinks_loop(_, _)
backlinks_loop(rows, backlinks) ==
    IF rows = <<>> THEN [raised |-> FALSE, value |-> backlinks]
    ELSE LET cols == Head(rows)
             as == cols[1].anchors
         IN  IF Len(cols) >= 4
             THEN IF as # <<>> /\ (~as[1].has_href \/ ~as[Len(as)].has_href)
                  THEN [raised |-> TRUE, exc |-> KeyErrorHref]
                  ELSE backlinks_loop(Tail(rows), Append(backlinks,
                           [source_url |-> IF as # <<>> THEN strip(as[1].href) ELSE NA,
                            target_url |-> IF as # <<>> THEN strip(as[Len(as)].href) ELSE NA,
                            anchor_text |-> strip(cell_text(cols[2])),
                            follow_type |-> strip(cell_text(cols[3]))]))
             ELSE backlinks_loop(Tail(rows), backlinks)

extract_backlinks(soup) ==
    backlinks_loop(section_rows(soup, <<"Backlinks">>), <<>>)

RECURSIVE top_pages_loop(_, _)
top_pages_loop(rows, top_pages) ==
    IF rows = <<>> THEN top_pages
    ELSE LET cols == Head(rows)
         IN  IF Len(cols) >= 3
             THEN top_pages_loop(Tail(rows), Append(top_pages,
                      [page_url |-> IF cols[1].anchors # <<>>
                                    THEN strip(cols[1].anchors[1].text)
                                    ELSE strip(cell_text(cols[1])),
                       traffic_percentage |-> strip(cell_text(cols[2])),
                       keywords |-> strip(cell_text(cols[3]))]))
             ELSE top_pages_loop(Tail(rows), top_pages)

extract_top_pages(soup) == top_pages_loop(section_rows(soup, <<"Top", WS, "Pages">>), <<>>)

\* The competitors loop.  It assigns each row's first column to the local
\* name domain, which is also the parameter of get_seo_data: the loop returns
\* the rows appended and the value domain holds after it.
RECURSIVE competitors_loop(_, _, _)
competitors_loop(rows, competitors, domain) ==
    IF rows = <<>> THEN [competitors |-> competitors, domain |-> domain]
    ELSE LET cols == Head(rows)
         IN  IF Len(cols) >= 3
             THEN competitors_loop(Tail(rows), Append(competitors,
                      [domain |-> strip(cell_text(cols[1])),
                       common_keywords |-> strip(cell_text(cols[2])),
                       competition_level |-> strip(cell_text(cols[3]))]),
                      strip(cell_text(cols[1])))
             ELSE competitors_loop(Tail(rows), competitors, domain)

extract_competitors(soup, domain) ==
    competitors_loop(section_rows(soup, <<"Main", WS, "Organic", WS, "Competitors">>), <<>>, domain)

RECURSIVE top_keywords_loop(_, _)
top_keywords_loop(rows, top_keywords) ==
    IF rows = <<>> THEN top_keywords
    ELSE LET cols == Head(rows)
         IN  IF Len(cols) >= 8
             THEN top_keywords_loop(Tail(rows), Append(top_keywords,
                      [keyword |-> strip(cell_text(cols[1])),
                       rank |-> strip(cell_text(cols[2])),
                       traffic_percentage |-> strip(cell_text(cols[3])),
                       volume |-> strip(cell_text(cols[4])),
                       kd_percentage |-> strip(cell_text(cols[5])),
                       cpc |-> strip(cell_text(cols[6])),
                       num_results |-> strip(cell_text(cols[7])),
                       search_trend |-> strip(cell_text(cols[8]))]))
             ELSE top_keywords_loop(Tail(rows), top_keywords)

extract_top_keywords(soup) ==
    LET keyword_table == find_div_table(soup)
    IN  IF keyword_table # 0
        THEN top_keywords_loop(SliceFrom(soup[keyword_table].rows, 1), <<>>)
        ELSE <<>>

\* str(int): the decimal digits of a natural number
Digit(d) == CASE d = 0 -> "0" [] d = 1 -> "1" [] d = 2 -> "2" [] d = 3 -> "3" [] d = 4 -> "4"
              [] d = 5 -> "5" [] d = 6 -> "6" [] d = 7 -> "7" [] d = 8 -> "8" [] d = 9 -> "9"
RECURSIVE str_int(_)
str_int(n) == IF n < 10 THEN <<Digit(n)>> ELSE str_int(n \div 10) \o <<Digit(n % 10)>>

\* The URL get_seo_data fetches for a domain
TargetUrl(domain) ==
    <<"https://tools.trafficthinktank.com/website-traffic-checker?q=">> \o domain

\* The body of the try block of get_seo_data after requests.get returned a
\* response with status 200: the report, or the exception raised
extract_report(domain, soup) ==
    LET metrics == extract_metrics(soup)
        backlinks == extract_backlinks(soup)
        top_pages == extract_top_pages(soup)
        comp == extract_competitors(soup, domain)
        top_keywords == extract_top_keywords(soup)
    IN  IF backlinks.raised
        THEN backlinks
        ELSE [raised |-> FALSE,
              value |-> [domain |-> comp.domain,
                         metrics |-> metrics,
                         top_keywords |-> top_keywords,
                         backlinks |-> backlinks.value,
                         competitors |-> comp.competitors,
                         top_pages |-> top_pages]]

\* get_seo_data failing only on the server errors of the upstream site
get_seo_data_5xx_only(domain, reply) ==
    IF reply.kind = "RequestException"
    THEN <<[error |-> <<"Request failed: ">> \o reply.msg], None>>
    ELSE IF reply.status_code >= 500
    THEN <<[error |-> <<"Failed to retrieve the page. Status Code: ">> \o str_int(reply.status_code)],
           None>>
    ELSE LET result == extract_report(domain, reply.soup)
         IN  IF result.raised
             THEN <<[error |-> <<"An error occurred: ">> \o result.exc], None>>
             ELSE <<result.value, None>>

\* get_seo_data with its two except clauses in the other order: the generic
\* handler comes first and takes the RequestException too
get_seo_data_generic_first(domain, reply) ==
    IF reply.kind = "RequestException"
    THEN <<[error |-> <<"An error occurred: ">> \o reply.msg], None>>
    ELSE IF reply.status_code # 200
    THEN <<[error |-> <<"Failed to retrieve the page. Status Code: ">> \o str_int(reply.status_code)],
           None>>
    ELSE LET result == extract_report(domain, reply.soup)
         IN  IF result.raised
             THEN <<[error |-> <<"An error occurred: ">> \o result.exc], None>>
             ELSE <<result.value, None>>

\* get_seo_data(domain), given what requests.get did: it raised a
\* RequestException, or it returned a response with a status code and a page.
\* The value is the pair the function returns.
get_seo_data(domain, reply) ==
    IF reply.kind = "RequestException"
    THEN <<[error |-> <<"Request failed: ">> \o reply.msg], None>>
    ELSE IF reply.status_code # 200
    THEN <<[error |-> <<"Failed to retrieve the page. Status Code: ">> \o str_int(reply.status_code)],
           None>>
    ELSE LET result == extract_report(domain, reply.soup)
         IN  IF result.raised
             THEN <<[error |-> <<"An error occurred: ">> \o result.exc], None>>
             ELSE <<result.value, None>>

\* Whether get_seo_data reaches BeautifulSoup(response.text, "html.parser")
parses_body(reply) == reply.kind = "response" /\ reply.status_code = 200

(***************************************************************************)
(* Pages of the upstream site: every sequence of at most MaxNodes of the   *)
(* elements below.                                                         *)
(***************************************************************************)
Txt(w) == <<w>>
Padded(w) == <<WS, w, WS>>

\* <td> cells
TdLinks == Cell(<<>>, <<Anchor(Padded("http://src/"), Padded("http://src/")),
                        Anchor(Txt("tgt"), Txt("http://tgt/"))>>)
TdLink == Cell(<<>>, <<Anchor(Txt("/page"), Txt("http://src/"))>>)
TdNoHref == Cell(<<>>, <<AnchorNoHref(Txt("src"))>>)
TdText == Cell(Padded("rival.com"), <<>>)
Td(w) == Cell(Txt(w), <<>>)

\* <tr> rows, by their number of cells
HeaderRow == <<>>
Row2 == <<TdLink, Td("a")>>
Row3 == <<TdText, Td("12"), Td("High")>>
Row4Links == <<TdLinks, Td("anchor"), Td("follow"), Td("d")>>
Row4Text == <<TdText, Td("anchor"), Td("nofollow"), Td("d")>>
Row4NoHref == <<TdNoHref, Td("anchor"), Td("follow"), Td("d")>>
Row7 == <<Td("kw"), Td("1"), Td("2"), Td("3"), Td("4"), Td("5"), Td("6")>>
Row8 == <<Td("kw"), Td("1"), Td("2"), Td("3"), Td("4"), Td("5"), Td("6"), Td("7")>>

Elements ==
    { Element("p", "", MetricLabel.visits, <<>>),
      Element("p", "", <<WS, "Visits">>, <<>>),
      Element("p", "", <<>>, <<Anchor(Padded("1.2K"), Txt("/v")), Anchor(Txt("more"), Txt("/m"))>>),
      Element("div", "", <<>>, <<Anchor(Txt("9"), Txt("/d"))>>),
      Element("h3", "", <<"Backlinks">>, <<>>),
      Element("h3", "", <<"Top", WS, "Pages">>, <<>>),
      Element("h3", "", <<"Main", WS, "Organic", WS, "Competitors">>, <<>>),
      Table("table", "", <<HeaderRow, Row4Links, Row3, Row4Text>>),
      Table("table", "", <<Row4Text, Row2, Row4NoHref>>),
      Table("div", "table", <<HeaderRow, Row8, Row7>>) }

Pages == UNION {[1..n -> Elements] : n \in 0..MaxNodes}

\* What requests.get does: it raises a RequestException (a timeout, a refused
\* connection) or returns a response
Timeout == [kind |-> "RequestException", msg |-> <<"Read timed out.">>, status_code |-> 0, soup |-> <<>>]
Response(code, soup) == [kind |-> "response", msg |-> <<>>, status_code |-> code, soup |-> soup]
NoReply == [kind |-> "none", msg |-> <<>>, status_code |-> 0, soup |-> <<>>]

\* Replies of the upstream site in the specification of the extractor
PageReplies == {Timeout, Response(404, <<>>)} \cup {Response(200, p) : p \in Pages}

\* Replies of the upstream site in the specification of the service
ServePages ==
    { <<>>,
      <<Element("h3", "", <<"Main", WS, "Organic", WS, "Competitors">>, <<>>),
        Table("table", "", <<HeaderRow, Row3>>)>>,
      <<Element("h3", "", <<"Backlinks">>, <<>>),
        Table("table", "", <<HeaderRow, Row4NoHref>>)>> }
ServeReplies ==
    {Timeout, Response(404, <<>>), Response(503, <<>>)} \cup {Response(200, p) : p \in ServePages}

(***************************************************************************)
(* Requests.  The query string has a url parameter or not.                 *)
(***************************************************************************)
Args(url) == [has_url |-> TRUE, url |-> url]
NoArgs == [has_url |-> FALSE, url |-> <<>>]

\* request.args.get with a default that is not empty
args_get_url_default(args) == IF args.has_url THEN args.url ELSE <<"a", ".", "b">>

\* request.args.get('url', '')
args_get_url(args) == IF args.has_url THEN args.url ELSE <<>>

ServeArgs ==
    {NoArgs, Args(<<>>), Args(<<"a", ".", "b">>), Args(WWW \o <<"a", ".", "b">>), Args(<<"[">>)}
ExtractArgs == {Args(WWW \o <<"a", ".", "b">>)}

NoRequest == [route |-> "none", args |-> NoArgs, domain |-> <<>>]
NoResponse == [status |-> 0, json |-> FALSE, body |-> [none |-> TRUE]]

\* jsonify(body), status
Json(status, body) == [status |-> status, json |-> TRUE, body |-> body]

\* What Flask answers when a view raises and debug is off
InternalServerError ==
    [status |-> 500, json |-> FALSE, body |-> [page |-> "500 Internal Server Error"]]

HomePayload ==
    [message |-> "SEO Data API is running!",
     endpoints |-> [get_api_seo_data |-> "Fetch SEO data for a domain",
                    parameters |-> [url |-> "Domain URL (required)"]],
     example |-> "/api/seo-data?url=example.com"]
HealthPayload == [status |-> "healthy", message |-> "API is running"]
NoUrlPayload == [error |-> <<"No URL provided. Please include a 'url' parameter.">>]

(***************************************************************************)
(* The service.  pc[w] is where worker w is: idle, inside requests.get     *)
(* ("fetching") or holding the response of its view ("responded").         *)
(* req[w] is its request and the domain its view computed, upstream[w]     *)
(* what requests.get did, outbound[w] the URLs the request fetched so far, *)
(* parsed[w] whether the body of the upstream response was parsed, ret[w]  *)
(* the pair get_seo_data returned and resp[w] the response of the view.    *)
(***************************************************************************)
Init ==
    /\ pc = [w \in Workers |-> "idle"]
    /\ req = [w \in Workers |-> NoRequest]
    /\ resp = [w \in Workers |-> NoResponse]
    /\ upstream = [w \in Workers |-> NoReply]
    /\ outbound = [w \in Workers |-> <<>>]
    /\ parsed = [w \in Workers |-> FALSE]
    /\ ret = [w \in Workers |-> <<>>]
    /\ nd_url = <<>>
    /\ nd_result = [called |-> FALSE]

\* A worker takes a request: the state every view starts from
Accept(w) ==
    /\ pc[w] = "idle"
    /\ upstream' = [upstream EXCEPT ![w] = NoReply]
    /\ parsed' = [parsed EXCEPT ![w] = FALSE]
    /\ ret' = [ret EXCEPT ![w] = <<>>]
    /\ UNCHANGED <<nd_url, nd_result>>

\* GET /
home(w) ==
    /\ Accept(w)
    /\ req' = [req EXCEPT ![w] = [route |-> "/", args |-> NoArgs, domain |-> <<>>]]
    /\ resp' = [resp EXCEPT ![w] = Json(200, HomePayload)]
    /\ outbound' = [outbound EXCEPT ![w] = <<>>]
    /\ pc' = [pc EXCEPT ![w] = "responded"]

\* GET /health
health_check(w) ==
    /\ Accept(w)
    /\ req' = [req EXCEPT ![w] = [route |-> "/health", args |-> NoArgs, domain |-> <<>>]]
    /\ resp' = [resp EXCEPT ![w] = Json(200, HealthPayload)]
    /\ outbound' = [outbound EXCEPT ![w] = <<>>]
    /\ pc' = [pc EXCEPT ![w] = "responded"]

\* GET /api/seo-data, up to the call of requests.get in get_seo_data
fetch_seo_data(w, args) ==
    LET url == args_get_url(args)
        domain == normalize_domain(url)
    IN  /\ Accept(w)
        /\ IF url = <<>>
           THEN /\ req' = [req EXCEPT ![w] = [route |-> "/api/seo-data", args |-> args, domain |-> <<>>]]
                /\ resp' = [resp EXCEPT ![w] = Json(400, NoUrlPayload)]
                /\ outbound' = [outbound EXCEPT ![w] = <<>>]
                /\ pc' = [pc EXCEPT ![w] = "responded"]
           ELSE IF domain.raised
           THEN /\ req' = [req EXCEPT ![w] = [route |-> "/api/seo-data", args |-> args, domain |-> <<>>]]
                /\ resp' = [resp EXCEPT ![w] = InternalServerError]
                /\ outbound' = [outbound EXCEPT ![w] = <<>>]
                /\ pc' = [pc EXCEPT ![w] = "responded"]
           ELSE /\ req' = [req EXCEPT ![w] = [route |-> "/api/seo-data", args |-> args,
                                              domain |-> domain.value]]
                /\ resp' = [resp EXCEPT ![w] = NoResponse]
                /\ outbound' = [outbound EXCEPT ![w] = <<TargetUrl(domain.value)>>]
                /\ pc' = [pc EXCEPT ![w] = "fetching"]

\* requests.get raises or returns, and GET /api/seo-data runs to its end
fetch_seo_data_return(w, reply) ==
    LET pair == get_seo_data(req[w].domain, reply)
        data == pair[1]
    IN  /\ pc[w] = "fetching"
        /\ upstream' = [upstream EXCEPT ![w] = reply]
        /\ parsed' = [parsed EXCEPT ![w] = parses_body(reply)]
        /\ ret' = [ret EXCEPT ![w] = pair]
        /\ resp' = [resp EXCEPT ![w] =
                      IF "error" \in DOMAIN data THEN Json(500, data) ELSE Json(200, data)]
        /\ pc' = [pc EXCEPT ![w] = "responded"]
        /\ UNCHANGED <<req, outbound, nd_url, nd_result>>

\* The server sends the response and the worker is free again
send_response(w) ==
    /\ pc[w] = "responded"
    /\ pc' = [pc EXCEPT ![w] = "idle"]
    /\ req' = [req EXCEPT ![w] = NoRequest]
    /\ resp' = [resp EXCEPT ![w] = NoResponse]
    /\ upstream' = [upstream EXCEPT ![w] = NoReply]
    /\ outbound' = [outbound EXCEPT ![w] = <<>>]
    /\ parsed' = [parsed EXCEPT ![w] = FALSE]
    /\ ret' = [ret EXCEPT ![w] = <<>>]
    /\ UNCHANGED <<nd_url, nd_result>>

Next ==
    \/ \E w \in Workers : home(w)
    \/ \E w \in Workers : health_check(w)
    \/ \E w \in Workers, args \in ServeArgs : fetch_seo_data(w, args)
    \/ \E w \in Workers, reply \in ServeReplies : fetch_seo_data_return(w, reply)
    \/ \E w \in Workers : send_response(w)

Spec == Init /\ [][Next]_vars

(***************************************************************************)
(* The extractor alone: one worker, one url, every page.                   *)
(***************************************************************************)
NextExtract ==
    \/ \E args \in ExtractArgs : fetch_seo_data(1, args)
    \/ \E reply \in PageReplies : fetch_seo_data_return(1, reply)
    \/ send_response(1)

SpecExtract == Init /\ [][NextExtract]_vars

(***************************************************************************)
(* normalize_domain alone, applied to each input.                          *)
(***************************************************************************)
InitNorm ==
    /\ pc = [w \in Workers |-> "idle"]
    /\ req = [w \in Workers |-> NoRequest]
    /\ resp = [w \in Workers |-> NoResponse]
    /\ upstream = [w \in Workers |-> NoReply]
    /\ outbound = [w \in Workers |-> <<>>]
    /\ parsed = [w \in Workers |-> FALSE]
    /\ ret = [w \in Workers |-> <<>>]
    /\ nd_url \in NormInputs
    /\ nd_result = [called |-> FALSE]

call_normalize_domain ==
    /\ ~nd_result.called
    /\ nd_result' = [called |-> TRUE, out |-> normalize_domain(nd_url)]
    /\ UNCHANGED <<pc, req, resp, upstream, outbound, parsed, ret, nd_url>>

NextNorm == call_normalize_domain

SpecNorm == InitNorm /\ [][NextNorm]_vars

(***************************************************************************)
(* Properties.                                                             *)
(***************************************************************************)
SeoRoute == "/api/seo-data"
ReportKeys == {"domain", "metrics", "top_keywords", "backlinks", "competitors", "top_pages"}

\* Worker w holds the response of a GET /api/seo-data
SeoDone(w) == pc[w] = "responded" /\ req[w].route = SeoRoute
\* ... of one whose url parameter is present and not empty
SeoUrlDone(w) == SeoDone(w) /\ req[w].args.has_url /\ req[w].args.url # <<>>
\* ... of one whose upstream fetch returned a response with status 200
SeoPageDone(w) ==
    SeoDone(w) /\ upstream[w].kind = "response" /\ upstream[w].status_code = 200

\* The payload get_seo_data returned contains an 'error' key
ExtractorFailed(w) == Len(ret[w]) = 2 /\ "error" \in DOMAIN ret[w][1]

\* C1: every GET /api/seo-data with a non-empty url answers 500 with the
\* extractor's payload when that payload has an 'error' key, and otherwise 200
\* with a report whose keys are exactly the six report keys; 500 is returned if
\* and only if the extractor failed.
C1_StatusFollowsPayload ==
    \A w \in Workers :
        SeoUrlDone(w) =>
            /\ ExtractorFailed(w) => resp[w].status = 500 /\ resp[w].body = ret[w][1]
            /\ ~ExtractorFailed(w) =>
                   /\ resp[w].status = 200
                   /\ DOMAIN resp[w].body = ReportKeys
            /\ resp[w].status = 500 <=> ExtractorFailed(w)

\* The number a sequence of decimal digits denotes
RECURSIVE DigitsValue(_)
DigitsValue(ds) ==
    IF ds = <<>> THEN 0
    ELSE 10 * DigitsValue(SubSeq(ds, 1, Len(ds) - 1))
         + (CHOOSE d \in 0..9 : Digit(d) = ds[Len(ds)])

\* C2: when the upstream fetch returns a status code other than 200, the
\* response is 500, its body has the single key error, whose value is "Failed
\* to retrieve the page. Status Code: " followed by the decimal upstream code,
\* and the upstream body is not parsed.
C2_Non200IsError ==
    \A w \in Workers :
        (SeoDone(w) /\ upstream[w].kind = "response" /\ upstream[w].status_code # 200) =>
            /\ resp[w].status = 500
            /\ resp[w].json
            /\ DOMAIN resp[w].body = {"error"}
            /\ Head(resp[w].body.error) = "Failed to retrieve the page. Status Code: "
            /\ Len(resp[w].body.error) > 1
            /\ \A k \in 2..Len(resp[w].body.error) :
                   \E d \in 0..9 : Digit(d) = resp[w].body.error[k]
            /\ resp[w].body.error[2] # "0"
            /\ DigitsValue(Tail(resp[w].body.error)) = upstream[w].status_code
            /\ ~parsed[w]

C2_Witness ==
    \E w \in Workers :
        /\ SeoDone(w)
        /\ upstream[w].kind = "response"
        /\ upstream[w].status_code = 503
        /\ resp[w].status = 500

\* C3 as stated: a GET /api/seo-data without the url parameter answers 400 with
\* the missing-parameter message, no other request answers 400, and every
\* request that supplies a url parameter answers 200 or 500.
C3_Only400IsMissingUrl ==
    \A w \in Workers :
        pc[w] = "responded" =>
            /\ (req[w].route = SeoRoute /\ ~req[w].args.has_url) =>
                   resp[w] = Json(400, NoUrlPayload)
            /\ resp[w].status = 400 => (req[w].route = SeoRoute /\ ~req[w].args.has_url)
            /\ (req[w].route = SeoRoute /\ req[w].args.has_url) => resp[w].status \in {200, 500}

\* C3, amended: a GET /api/seo-data whose url parameter is missing or empty
\* answers 400 with the missing-parameter message, no other request answers
\* 400, and every request with a non-empty url answers 200 or 500.
C3_Only400IsMissingOrEmptyUrl ==
    \A w \in Workers :
        pc[w] = "responded" =>
            LET no_url == req[w].route = SeoRoute
                          /\ (~req[w].args.has_url \/ req[w].args.url = <<>>)
            IN  /\ no_url => resp[w] = Json(400, NoUrlPayload)
                /\ resp[w].status = 400 => no_url
                /\ SeoUrlDone(w) => resp[w].status \in {200, 500}

C3_Witness ==
    \E w \in Workers :
        /\ SeoDone(w)
        /\ ~req[w].args.has_url
        /\ resp[w].status = 400
        /\ \E v \in Workers : SeoUrlDone(v) /\ resp[v].status = 200

\* The rows after the first of the table that follows the 'Backlinks' heading
BacklinkRows(soup) ==
    LET hs == {i \in 1..Len(soup) :
                  soup[i].tag = "h3" /\ ~soup[i].table /\ soup[i].anchors = <<>>
                  /\ soup[i].text = <<"Backlinks">>}
        ts == IF hs = {} THEN {} ELSE {j \in (Least(hs) + 1)..Len(soup) : soup[j].table}
    IN  IF ts = {} THEN <<>> ELSE Tail(soup[Least(ts)].rows)

AtLeast4(row) == Len(row) >= 4

\* C4: every non-header row of the backlinks table with fewer than 4 columns
\* emits no BacklinkRow and every one with 4 or more columns emits exactly one,
\* with its four fields, whose source_url and target_url are "N/A" only when
\* the first column has no anchor.
C4_OneBacklinkPerWideRow ==
    \A w \in Workers :
        SeoPageDone(w) =>
            LET wide == SelectSeq(BacklinkRows(upstream[w].soup), AtLeast4)
                body == resp[w].body
            IN  /\ "backlinks" \in DOMAIN body
                /\ Len(body.backlinks) = Len(wide)
                /\ \A k \in 1..Len(wide) :
                       /\ DOMAIN body.backlinks[k] =
                              {"source_url", "target_url", "anchor_text", "follow_type"}
                       /\ body.backlinks[k].source_url = NA => wide[k][1].anchors = <<>>
                       /\ body.backlinks[k].target_url = NA => wide[k][1].anchors = <<>>

\* The page has a <p> whose string is the label of one of the nine metrics
HasMetricSection(soup) ==
    \E i \in 1..Len(soup), f \in MetricFields :
        /\ soup[i].tag = "p"
        /\ tag_string(soup[i]) = [some |-> TRUE, value |-> MetricLabel[f]]

\* The page has one of the four table sections: one of the three headings with
\* a table after it, or a div of class table
HasTableSection(soup) ==
    \/ \E i \in 1..Len(soup) : soup[i].tag = "div" /\ soup[i].class = "table"
    \/ \E i \in 1..Len(soup), j \in 1..Len(soup) :
           /\ i < j
           /\ soup[i].tag = "h3"
           /\ tag_string(soup[i]).value \in
                  {<<"Backlinks">>, <<"Top", WS, "Pages">>,
                   <<"Main", WS, "Organic", WS, "Competitors">>}
           /\ soup[j].table

EmptyReport(w) ==
    /\ resp[w].status = 200
    /\ DOMAIN resp[w].body = ReportKeys
    /\ \A f \in MetricFields : resp[w].body.metrics[f] = <<"Not", " ", "Found">>
    /\ resp[w].body.top_keywords = <<>>
    /\ resp[w].body.backlinks = <<>>
    /\ resp[w].body.competitors = <<>>
    /\ resp[w].body.top_pages = <<>>

\* C5 as stated: when the upstream response is 200 and its page has none of
\* the nine metric sections, the response is 200, the nine metrics are "Not
\* Found" and the four collections are empty.
C5_NoMetricsGivesEmptyReport ==
    \A w \in Workers :
        (SeoPageDone(w) /\ ~HasMetricSection(upstream[w].soup)) => EmptyReport(w)

\* C5, amended: when the upstream response is 200 and its page has none of the
\* nine metric sections and none of the four table sections, the response is
\* 200, the nine metrics are "Not Found" and the four collections are empty.
C5_NoSectionsGivesEmptyReport ==
    \A w \in Workers :
        (/\ SeoPageDone(w)
         /\ ~HasMetricSection(upstream[w].soup)
         /\ ~HasTableSection(upstream[w].soup)) => EmptyReport(w)

C5_Witness ==
    \E w \in Workers :
        /\ SeoPageDone(w)
        /\ ~HasMetricSection(upstream[w].soup)
        /\ ~HasTableSection(upstream[w].soup)
        /\ \E i \in 1..Len(upstream[w].soup) : upstream[w].soup[i].tag = "p"
        /\ \E i \in 1..Len(upstream[w].soup) : upstream[w].soup[i].table
        /\ resp[w].status = 200

Max(S) == CHOOSE i \in S : \A j \in S : i >= j

\* The host component of a URL string after the "https://" default: what lies
\* between the scheme and the first / ? #, without user-info and port, and
\* without one leading "www."
C6_Host(url) ==
    LET u == IF startswith(url, HTTP) \/ startswith(url, HTTPS) THEN url ELSE HTTPS \o url
        after == SliceFrom(u, IF startswith(u, HTTPS) THEN Len(HTTPS) ELSE Len(HTTP))
        ends == {k \in 1..Len(after) : after[k] \in {"/", "?", "#"}}
        authority == IF ends = {} THEN after ELSE SubSeq(after, 1, Least(ends) - 1)
        ats == {k \in 1..Len(authority) : authority[k] = "@"}
        hostport == IF ats = {} THEN authority ELSE SliceFrom(authority, Max(ats))
        colons == {k \in 1..Len(hostport) : hostport[k] = ":"}
        host == IF colons = {} THEN hostport ELSE SubSeq(hostport, 1, Least(colons) - 1)
    IN  IF startswith(host, WWW) THEN SliceFrom(host, Len(WWW)) ELSE host

\* C6: for every input normalize_domain returns, without raising, the host
\* component of the input read as a URL ("https://" prepended when it has no
\* http:// or https:// prefix), without scheme, path, port or user-info, with
\* one leading "www." removed and no case folding.
C6_ReturnsHost ==
    nd_result.called =>
        /\ ~nd_result.out.raised
        /\ nd_result.out.value = C6_Host(nd_url)

\* A row of the backlinks table that makes the extractor raise: 4 or more
\* columns, and an anchor without href first or last in the first column
KeyErrorPage(soup) ==
    \E k \in 1..Len(BacklinkRows(soup)) :
        LET row == BacklinkRows(soup)[k]
        IN  /\ Len(row) >= 4
            /\ row[1].anchors # <<>>
            /\ \E a \in {1, Len(row[1].anchors)} : ~row[1].anchors[a].has_href

\* C7: get_seo_data always returns a pair whose second element is None; a
\* network-level exception of the request gives the payload "Request failed:
\* <exception>", an exception raised while extracting gives "An error
\* occurred: <exception>", and a page that raises nothing gives a report.
C7_NoExceptionEscapes ==
    \A w \in Workers :
        (SeoDone(w) /\ upstream[w].kind # "none") =>
            /\ Len(ret[w]) = 2
            /\ ret[w][2] = None
            /\ upstream[w].kind = "RequestException" =>
                   ret[w][1] = [error |-> <<"Request failed: ">> \o upstream[w].msg]
            /\ (SeoPageDone(w) /\ KeyErrorPage(upstream[w].soup)) =>
                   ret[w][1] = [error |-> <<"An error occurred: ", "'href'">>]
            /\ (SeoPageDone(w) /\ ~KeyErrorPage(upstream[w].soup)) =>
                   DOMAIN ret[w][1] = ReportKeys

C7_Witness ==
    \E w \in Workers :
        /\ SeoPageDone(w)
        /\ KeyErrorPage(upstream[w].soup)
        /\ Len(ret[w]) = 2
        /\ resp[w].status = 500

\* C8: a GET /api/seo-data with a non-empty url issues exactly one outbound
\* GET, every other request issues none, and /health answers 200 with the
\* healthy payload.
C8_OneFetchPerLookup ==
    \A w \in Workers :
        /\ pc[w] = "fetching" => Len(outbound[w]) = 1
        /\ pc[w] = "responded" =>
               /\ SeoUrlDone(w) => Len(outbound[w]) = 1
               /\ ~SeoUrlDone(w) => Len(outbound[w]) = 0
               /\ req[w].route = "/health" => resp[w] = Json(200, HealthPayload)

\* The anchors inside an element, in document order
RECURSIVE cells_anchors(_)
cells_anchors(cells) ==
    IF cells = <<>> THEN <<>> ELSE Head(cells).anchors \o cells_anchors(Tail(cells))
RECURSIVE rows_anchors(_)
rows_anchors(rows) ==
    IF rows = <<>> THEN <<>> ELSE cells_anchors(Head(rows)) \o rows_anchors(Tail(rows))
AnchorsIn(n) == IF n.table THEN rows_anchors(n.rows) ELSE n.anchors

\* soup[i] is a <p> whose string is the label
IsLabel(soup, i, label) ==
    soup[i].tag = "p" /\ tag_string(soup[i]) = [some |-> TRUE, value |-> label]

\* C9 as stated: each metric is the stripped text of the first anchor inside
\* the next sibling element of the first <p> whose text is the metric's label,
\* and "Not Found" when the label is absent, has no next sibling, or the next
\* sibling contains no anchor.
C9_MetricFromNextSibling ==
    \A w \in Workers :
        (SeoPageDone(w) /\ resp[w].status = 200) =>
            \A f \in MetricFields :
                LET soup == upstream[w].soup
                    labels == {i \in 1..Len(soup) : IsLabel(soup, i, MetricLabel[f])}
                    next == Least(labels) + 1
                IN  resp[w].body.metrics[f] =
                        IF labels = {} \/ next > Len(soup) THEN <<"Not", " ", "Found">>
                        ELSE IF AnchorsIn(soup[next]) = <<>> THEN <<"Not", " ", "Found">>
                        ELSE strip(AnchorsIn(soup[next])[1].text)

\* soup[i] is the first <p> with the label and soup[j] the first <p> after it
LabelAndValue(soup, i, j, label) ==
    /\ IsLabel(soup, i, label)
    /\ \A h \in 1..(i - 1) : ~IsLabel(soup, h, label)
    /\ i < j
    /\ soup[j].tag = "p"
    /\ \A h \in (i + 1)..(j - 1) : soup[h].tag # "p"

\* C9, amended: each metric is the stripped text of the first anchor inside
\* the first <p> that follows, as a sibling, the first <p> whose string is the
\* metric's label (siblings with other tags are skipped), and "Not Found" when
\* the label is absent, no <p> follows it, or that <p> contains no anchor.
C9_MetricFromNextSiblingP ==
    \A w \in Workers :
        (SeoPageDone(w) /\ resp[w].status = 200) =>
            \A f \in MetricFields :
                LET soup == upstream[w].soup
                    value == resp[w].body.metrics[f]
                    hits == {ij \in (1..Len(soup)) \X (1..Len(soup)) :
                                /\ LabelAndValue(soup, ij[1], ij[2], MetricLabel[f])
                                /\ soup[ij[2]].anchors # <<>>}
                IN  /\ hits = {} => value = <<"Not", " ", "Found">>
                    /\ \A ij \in hits : value = strip(soup[ij[2]].anchors[1].text)

C9_Witness ==
    \E w \in Workers :
        /\ SeoPageDone(w)
        /\ resp[w].status = 200
        /\ LET soup == upstream[w].soup
           IN  /\ Len(soup) = 3
               /\ LabelAndValue(soup, 1, 3, MetricLabel.visits)
               /\ soup[2].tag = "div"
               /\ soup[2].anchors # <<>>
               /\ resp[w].body.metrics.visits = <<"1.2K">>

\* C10: the domain field of every successful report is the normalized domain
\* that get_seo_data was given and fetched.
C10_ReportDomainIsArgument ==
    \A w \in Workers :
        (SeoDone(w) /\ resp[w].status = 200) =>
            /\ outbound[w] = <<TargetUrl(req[w].domain)>>
            /\ resp[w].body.domain = req[w].domain

====
